---- MODULE Spec2Model ----
(***************************************************************************)
(* PesqEle: scrape-and-reconcile pipeline of src/PesqEle.py and            *)
(* src/scraper_pesqele.py.                                                 *)
(*                                                                         *)
(* A Python string is modelled as a sequence of symbols.  A symbol is a    *)
(* single character wherever the code looks at characters (keys, dates,    *)
(* timestamps) and one opaque word elsewhere (column names, firm names).   *)
(* A worksheet is the sequence of its rows from row 1 on; a row is the     *)
(* sequence of its cells; a cell is a string.                              *)
(***************************************************************************)
EXTENDS Integers, Sequences, FiniteSets, TLC

\* ------------------------------------------------------------------------
\* Bounds of the model
\* ------------------------------------------------------------------------
\* number of pipeline runs against the same spreadsheet
MaxRuns == 2
\* longest batch handed to insert_new_rows_top when called on its own
MaxBatch == 3
\* number of calls of insert_new_rows_top on the same batch
MaxCalls == 2
\* longest input of dedup_by_numero when called on its own
MaxRows == 3
\* rows per insert call of insert_rows_batched (200 in the source; scaled so
\* that a two-row batch is one chunk and a three-row batch is two chunks)
batch_size == 2
\* most whitespace characters around a date text handed to the date parsers
MaxPad == 1
\* most pages of one result table
MaxPages == 3
\* page links the pager shows at one time (10 by default on the site's
\* component; scaled so that a three-page result does not fit)
PageLinks == 2

\* ------------------------------------------------------------------------
\* Strings
\* ------------------------------------------------------------------------
Digit == {"0", "1", "2", "3", "4", "5", "6", "7", "8", "9"}
Whitespace == {" "}
EmptyStr == <<>>
\* Python's None, where a dict value or a DataFrame cell can hold it
None == <<"<None>">>

\* code point of a symbol, for Python's string ordering
Code(c) ==
  CASE c = " " -> 32
    [] c = "-" -> 45
    [] c = "/" -> 47
    [] c = "0" -> 48
    [] c = "1" -> 49
    [] c = "2" -> 50
    [] c = "3" -> 51
    [] c = "4" -> 52
    [] c = "5" -> 53
    [] c = "6" -> 54
    [] c = "7" -> 55
    [] c = "8" -> 56
    [] c = "9" -> 57
    [] c = ":" -> 58
    [] OTHER -> 97

\* a < b in Python's str ordering (lexicographic by code point)
RECURSIVE StrLess(_, _)
StrLess(a, b) ==
  IF b = <<>> THEN FALSE
  ELSE IF a = <<>> THEN TRUE
  ELSE IF Code(Head(a)) # Code(Head(b)) THEN Code(Head(a)) < Code(Head(b))
  ELSE StrLess(Tail(a), Tail(b))

RECURSIVE lstrip(_)
lstrip(s) ==
  IF s # <<>> /\ Head(s) \in Whitespace THEN lstrip(Tail(s)) ELSE s

RECURSIVE rstrip(_)
rstrip(s) ==
  IF s # <<>> /\ s[Len(s)] \in Whitespace
  THEN rstrip(SubSeq(s, 1, Len(s) - 1))
  ELSE s

\* str.strip()
strip(s) == rstrip(lstrip(s))

\* (x or "").strip() and (str(x) if x is not None else "").strip()
StrOrEmpty(x) == IF x = None THEN EmptyStr ELSE x

AllDigits(s, from, to) == \A i \in from..to : s[i] \in Digit

\* ------------------------------------------------------------------------
\* Date conversions (scraper_pesqele.py)
\* ------------------------------------------------------------------------
\* ^(\d{2})/(\d{2})/(\d{4})$
MatchesBrDate(s) ==
  /\ Len(s) = 10
  /\ AllDigits(s, 1, 2) /\ s[3] = "/"
  /\ AllDigits(s, 4, 5) /\ s[6] = "/"
  /\ AllDigits(s, 7, 10)

\* faulty variant of parse_br_date_to_iso: day and month keep their places
ParseDayFirst(x) ==
  LET s == strip(StrOrEmpty(x)) IN
  IF ~MatchesBrDate(s) THEN EmptyStr
  ELSE SubSeq(s, 7, 10) \o <<"-">> \o SubSeq(s, 1, 2) \o <<"-">> \o SubSeq(s, 4, 5)

parse_br_date_to_iso(x) ==
  LET s == strip(StrOrEmpty(x)) IN
  IF ~MatchesBrDate(s) THEN EmptyStr
  ELSE SubSeq(s, 7, 10) \o <<"-">> \o SubSeq(s, 4, 5) \o <<"-">> \o SubSeq(s, 1, 2)

\* HH:MM:SS at positions p..p+7
MatchesClock(s, p) ==
  /\ AllDigits(s, p, p + 1) /\ s[p + 2] = ":"
  /\ AllDigits(s, p + 3, p + 4) /\ s[p + 5] = ":"
  /\ AllDigits(s, p + 6, p + 7)

\* ^(\d{2})/(\d{2})/(\d{4})\s+(\d{2}):(\d{2}):(\d{2})$
MatchesBrDatetime(s) ==
  /\ Len(s) >= 19
  /\ MatchesBrDate(SubSeq(s, 1, 10))
  /\ \A i \in 11..(Len(s) - 8) : s[i] \in Whitespace
  /\ MatchesClock(s, Len(s) - 7)

parse_br_datetime_to_iso(x) ==
  LET s == strip(StrOrEmpty(x)) IN
  IF ~MatchesBrDatetime(s) THEN EmptyStr
  ELSE SubSeq(s, 7, 10) \o <<"-">> \o SubSeq(s, 4, 5) \o <<"-">> \o SubSeq(s, 1, 2)
       \o <<" ">> \o SubSeq(s, Len(s) - 7, Len(s))

\* ^\d{4}-\d{2}-\d{2}$
MatchesIsoDate(s) ==
  /\ Len(s) = 10
  /\ AllDigits(s, 1, 4) /\ s[5] = "-"
  /\ AllDigits(s, 6, 7) /\ s[8] = "-"
  /\ AllDigits(s, 9, 10)

iso_date_sort_key(x) ==
  LET s == strip(StrOrEmpty(x)) IN
  IF MatchesIsoDate(s) THEN s ELSE EmptyStr

\* ------------------------------------------------------------------------
\* dedup_by_numero (identical in both scripts)
\* ------------------------------------------------------------------------
\* k = (r.get("numero_identificacao") or "").strip()
KeyOf(r) == strip(StrOrEmpty(r.numero_identificacao))

RECURSIVE DedupLoop(_, _, _)
DedupLoop(rows, seen, out) ==
  IF rows = <<>> THEN out
  ELSE LET r == Head(rows)
           k == KeyOf(r)
       IN IF k = EmptyStr \/ k \in seen
          THEN DedupLoop(Tail(rows), seen, out)
          ELSE DedupLoop(Tail(rows), seen \cup {k}, Append(out, r))

\* faulty variant of dedup_by_numero: keeps the last occurrence of a key
DedupKeepLast(rows) ==
  LET keep(i) == /\ KeyOf(rows[i]) # EmptyStr
                 /\ \A j \in (i + 1)..Len(rows) : KeyOf(rows[j]) # KeyOf(rows[i])
      F[i \in 0..Len(rows)] ==
        IF i = 0 THEN <<>>
        ELSE IF keep(i) THEN Append(F[i - 1], rows[i]) ELSE F[i - 1]
  IN F[Len(rows)]

\* faulty variant of dedup_by_numero: does not skip the rows without a key
DedupKeepEmpty(rows) ==
  LET keep(i) == \/ KeyOf(rows[i]) = EmptyStr
                 \/ \A j \in 1..(i - 1) : KeyOf(rows[j]) # KeyOf(rows[i])
      F[i \in 0..Len(rows)] ==
        IF i = 0 THEN <<>>
        ELSE IF keep(i) THEN Append(F[i - 1], rows[i]) ELSE F[i - 1]
  IN F[Len(rows)]

dedup_by_numero(rows) == DedupLoop(rows, {}, <<>>)

\* ------------------------------------------------------------------------
\* Program constants
\* ------------------------------------------------------------------------
HEADER_ROW == 3
DATA_START_ROW == 4
INSERT_AT_ROW == 2

\* output columns of scraper_pesqele.py
COLS_BASE ==
  <<"numero_identificacao", "eleicao", "empresa_contratada", "data_registro",
    "abrangencia", "data_divulgacao", "uf_filtro", "capturado_em">>

\* header list of PesqEle.py (no data_divulgacao column)
header ==
  <<"numero_identificacao", "eleicao", "empresa_contratada", "data_registro",
    "abrangencia", "uf_filtro", "capturado_em">>

\* a list of column names as the cells of one worksheet row
AsCells(cols) == [i \in 1..Len(cols) |-> <<cols[i]>>]

\* ------------------------------------------------------------------------
\* Worksheet operations the scripts call (gspread)
\* ------------------------------------------------------------------------
RECURSIVE TrimRow(_)
TrimRow(row) ==
  IF row # <<>> /\ row[Len(row)] = EmptyStr
  THEN TrimRow(SubSeq(row, 1, Len(row) - 1))
  ELSE row

\* the sheet with at least n rows (blank rows added at the bottom)
PadRows(ws, n) ==
  IF Len(ws) >= n THEN ws ELSE ws \o [i \in 1..(n - Len(ws)) |-> <<>>]

Cell(ws, r, c) ==
  IF r <= Len(ws) /\ c <= Len(ws[r]) THEN ws[r][c] ELSE EmptyStr

\* ws.get_all_values(): [] for a sheet without any value
get_all_values(ws) ==
  IF \A r \in 1..Len(ws) : TrimRow(ws[r]) = <<>> THEN <<>> ELSE ws

\* ws.row_values(r)
row_values(ws, r) == IF r <= Len(ws) THEN TrimRow(ws[r]) ELSE <<>>

\* ws.col_values(c): column c from row 1 down to its last non-empty cell
col_values(ws, c) ==
  LET filled == {r \in 1..Len(ws) : Cell(ws, r, c) # EmptyStr}
      last == IF filled = {} THEN 0
              ELSE CHOOSE r \in filled : \A q \in filled : q <= r
  IN [r \in 1..last |-> Cell(ws, r, c)]

\* ws.update("A<r>", [cells]): writes Len(cells) cells from column A on
ws_update(ws, r, cells) ==
  LET p == PadRows(ws, r)
      old == p[r]
      new == [c \in 1..(IF Len(old) > Len(cells) THEN Len(old) ELSE Len(cells)) |->
                IF c <= Len(cells) THEN cells[c] ELSE old[c]]
  IN [p EXCEPT ![r] = new]

\* faulty variant of insert_rows: writes over the rows at the anchor
OverwriteRows(ws, values, row) ==
  LET p == PadRows(ws, row - 1) IN
  SubSeq(p, 1, row - 1) \o values \o SubSeq(p, row + Len(values), Len(p))

\* ws.insert_rows(values, row=row): the rows at and below row move down
insert_rows(ws, values, row) ==
  LET p == PadRows(ws, row - 1) IN
  SubSeq(p, 1, row - 1) \o values \o SubSeq(p, row, Len(p))

\* header.index(name): 0 stands for ValueError, else the 0-based index + 1
HeaderIndex(hdr, name) ==
  LET hits == {i \in 1..Len(hdr) : hdr[i] = <<name>>} IN
  IF hits = {} THEN 0 ELSE CHOOSE i \in hits : \A j \in hits : i <= j

\* outcomes of one call of the store's insert: it returns, or it raises
\* APIError before or after the store has applied the insert
InsertOutcome == {"ok", "error", "error_applied"}

\* ------------------------------------------------------------------------
\* Reconciler of scraper_pesqele.py
\* ------------------------------------------------------------------------
ensure_header(ws, hdr) ==
  IF row_values(ws, HEADER_ROW) # AsCells(hdr)
  THEN ws_update(ws, HEADER_ROW, AsCells(hdr))
  ELSE ws

\* faulty variant of get_existing_keys: starts one row too low
ExistingKeysOffByOne(ws, key_col_name) ==
  LET hdr == row_values(ws, HEADER_ROW)
      idx == HeaderIndex(hdr, key_col_name)
      col_vals == IF idx = 0 THEN <<>> ELSE col_values(ws, idx)
  IN {strip(col_vals[i]) : i \in (DATA_START_ROW + 1)..Len(col_vals)} \ {EmptyStr}

get_existing_keys(ws, key_col_name) ==
  LET hdr == row_values(ws, HEADER_ROW)
      idx == HeaderIndex(hdr, key_col_name)
      col_vals == IF idx = 0 THEN <<>> ELSE col_values(ws, idx)
  IN {strip(col_vals[i]) : i \in DATA_START_ROW..Len(col_vals)} \ {EmptyStr}

\* one DataFrame row restricted to COLS_BASE; absent columns and None -> ""
FillRow(r) ==
  [c \in {COLS_BASE[i] : i \in 1..Len(COLS_BASE)} |->
     IF c \in DOMAIN r THEN StrOrEmpty(r[c]) ELSE EmptyStr]

\* the three .apply(...) conversions
ConvertRow(r) ==
  [r EXCEPT !.data_registro = parse_br_date_to_iso(@),
            !.data_divulgacao = parse_br_date_to_iso(@),
            !.capturado_em = parse_br_datetime_to_iso(@)]

\* faulty variant of SortsBefore: ascending
SortsBeforeAscending(a, b) ==
  LET sa == iso_date_sort_key(a.data_divulgacao)
      sb == iso_date_sort_key(b.data_divulgacao)
  IN \/ StrLess(sa, sb)
     \/ sa = sb /\ StrLess(a.numero_identificacao, b.numero_identificacao)

\* a sorts strictly before b: by (__sort, numero_identificacao), both descending
SortsBefore(a, b) ==
  LET sa == iso_date_sort_key(a.data_divulgacao)
      sb == iso_date_sort_key(b.data_divulgacao)
  IN \/ StrLess(sb, sa)
     \/ sa = sb /\ StrLess(b.numero_identificacao, a.numero_identificacao)

\* df.sort_values(by=[...], ascending=[False, False], kind="mergesort"): stable
RECURSIVE InsertSorted(_, _)
InsertSorted(x, s) ==
  IF s = <<>> THEN <<x>>
  ELSE IF SortsBefore(x, Head(s)) THEN <<x>> \o s
  ELSE <<Head(s)>> \o InsertSorted(x, Tail(s))

sort_values(df) ==
  LET F[i \in 0..Len(df)] == IF i = 0 THEN <<>> ELSE InsertSorted(df[i], F[i - 1])
  IN F[Len(df)]

\* df.astype(str).values.tolist()
tolist(df) == [i \in 1..Len(df) |-> [c \in 1..Len(COLS_BASE) |-> df[i][COLS_BASE[c]]]]

\* faulty variant of NotExisting: compares the key as written, without strip
NotExistingRaw(df, existing) ==
  SelectSeq(df, LAMBDA r : r.numero_identificacao \notin existing)

\* df[~df[key_col_name].astype(str).str.strip().isin(existing)]
NotExisting(df, existing) ==
  SelectSeq(df, LAMBDA r : strip(r.numero_identificacao) \notin existing)

\* insert_new_rows_top(ws, df) with the outcome of its one insert call;
\* ret is the returned count, raised tells that APIError left the function
insert_new_rows_top(ws, df, outcome) ==
  IF df = <<>>
  THEN [ws |-> ws, ret |-> 0, raised |-> FALSE, values |-> <<>>, log |-> <<>>]
  ELSE
    LET df1 == [i \in 1..Len(df) |-> ConvertRow(FillRow(df[i]))]
        ws1 == ensure_header(ws, COLS_BASE)
        existing == get_existing_keys(ws1, "numero_identificacao")
        df_new == NotExisting(df1, existing)
        values == tolist(sort_values(df_new))
        ws2 == insert_rows(ws1, values, DATA_START_ROW)
    IN IF df_new = <<>>
       THEN [ws |-> ws1, ret |-> 0, raised |-> FALSE, values |-> <<>>, log |-> <<>>]
       ELSE [ws |-> IF outcome = "error" THEN ws1 ELSE ws2,
             ret |-> IF outcome = "ok" THEN Len(df_new) ELSE 0,
             raised |-> outcome # "ok",
             values |-> values,
             log |-> << <<outcome>> >>]

\* ------------------------------------------------------------------------
\* Store functions of PesqEle.py
\* ------------------------------------------------------------------------
\* characters the sheet title may not hold: [ ] : * ? / \
TitleForbidden == {"[", "]", ":", "*", "?", "/", "\\"}

ReplaceForbidden(s) == [i \in 1..Len(s) |-> IF s[i] \in TitleForbidden THEN "-" ELSE s[i]]

Truncate(s, n) == IF Len(s) > n THEN SubSeq(s, 1, n) ELSE s

\* sheet_safe of scraper_pesqele.py: at most 31 characters
sheet_safe(name) == Truncate(ReplaceForbidden(strip(name)), 31)

\* sheet_safe of PesqEle.py: at most 100 characters
PesqEle_sheet_safe(name) == Truncate(ReplaceForbidden(strip(StrOrEmpty(name))), 100)

\* the spreadsheet with worksheet title set to ws
WithSheet(sheets, title, ws) ==
  [t \in DOMAIN sheets \cup {title} |-> IF t = title THEN ws ELSE sheets[t]]

\* ss.worksheet(title), or ss.add_worksheet(title): a blank sheet
OpenOrAdd(sheets, title) == IF title \in DOMAIN sheets THEN sheets[title] ELSE <<>>

\* ensure_worksheet of PesqEle.py: the header goes to row 1 of a sheet
\* without values
PesqEle_ensure_worksheet(sheets, title, hdr) ==
  LET ws == OpenOrAdd(sheets, PesqEle_sheet_safe(title)) IN
  IF get_all_values(ws) = <<>> THEN insert_rows(ws, <<AsCells(hdr)>>, 1) ELSE ws

\* ensure_worksheet of scraper_pesqele.py
ensure_worksheet(sheets, title) == OpenOrAdd(sheets, sheet_safe(title))

read_existing_ids(ws, id_col_name) ==
  LET values == get_all_values(ws) IN
  IF Len(values) < 2 THEN {}
  ELSE LET idx == HeaderIndex(values[1], id_col_name) IN
       IF idx = 0 THEN {}
       ELSE {strip(Cell(values, r, idx)) : r \in 2..Len(values)} \ {EmptyStr}

\* what one chunk's insert attempts can do: <<first attempt, retry>>; the
\* retry happens only when the first attempt raised APIError
AttemptPlan == {<<"ok", "ok">>} \cup ({"error", "error_applied"} \X InsertOutcome)

Min(a, b) == IF a < b THEN a ELSE b

\* insert_rows_batched(ws, rows, insert_at, batch_size); plan[n] tells the
\* outcomes of the attempts for the n-th chunk; log collects, per chunk, the
\* outcomes of the attempts made
RECURSIVE BatchLoop(_, _, _, _, _, _, _)
BatchLoop(ws, rows, insert_at, size, i, plan, log) ==
  IF i >= Len(rows) THEN [ws |-> ws, raised |-> FALSE, log |-> log]
  ELSE
    LET chunk == SubSeq(rows, i + 1, Min(i + size, Len(rows)))
        p == plan[Len(log) + 1]
        applied == insert_rows(ws, chunk, insert_at)
        ws1 == IF p[1] = "error" THEN ws ELSE applied
        ws2 == IF p[2] = "error" THEN ws1 ELSE insert_rows(ws1, chunk, insert_at)
    IN IF p[1] = "ok"
       THEN BatchLoop(ws1, rows, insert_at, size, i + size, plan, Append(log, <<p[1]>>))
       ELSE IF p[2] = "ok"
       THEN BatchLoop(ws2, rows, insert_at, size, i + size, plan, Append(log, p))
       ELSE [ws |-> ws2, raised |-> TRUE, log |-> Append(log, p)]

insert_rows_batched(ws, rows, insert_at, size, plan) ==
  BatchLoop(ws, rows, insert_at, size, 0, plan, <<>>)

\* ------------------------------------------------------------------------
\* The source site, as one search shows it
\* ------------------------------------------------------------------------
\* A result table is the list of its pages; a page is the list of its <tr>
\* rows; a row has the texts of its <td> cells and the text its detail view
\* gives for "Data de divulgacao:" (None when the excursion yields nothing).
TableRow(key, firm, reg, div) ==
  [cols |-> <<key, <<"Eleicoes Gerais 2026">>, <<firm>>, reg, <<"Nacional">>>>,
   detail |-> div]

K100 == <<"1", "0", "0">>
K200 == <<"2", "0", "0">>
K300 == <<"3", "0", "0">>
D0103 == <<"0", "1", "/", "0", "3", "/", "2", "0", "2", "6">>
D0503 == <<"0", "5", "/", "0", "3", "/", "2", "0", "2", "6">>
D1003 == <<"1", "0", "/", "0", "3", "/", "2", "0", "2", "6">>
DShort == <<"5", "/", "3", "/", "2", "0", "2", "6">>

Row100 == TableRow(K100, "F1", D0103, D0503)
Row200 == TableRow(K200, "F1", D0103, None)
Row300 == TableRow(<<" ">> \o K300, "F1", D0103, D1003)
Row300b == TableRow(K300, "F2", D0503, DShort)
RowNoKey == TableRow(<<" ">>, "F2", D0103, D0503)
RowShort == [cols |-> <<K200, <<"colspan">>>>, detail |-> None]

\* the searches the model lets a scope see; <<>> is a search without results.
\* Region AC has the varied tables, the other scopes the first two; the
\* dashboard's namesake has no survey registered.
SourceTables(uf) ==
  (IF uf = <<"D", "a", "s", "h", "b", "o", "a", "r", "d">>
   THEN { <<>> }
   ELSE { <<>>, << <<Row100>> >> })
  \cup (IF uf = <<"A", "C">>
        THEN { << <<Row300, Row100>>, <<Row300b, Row200>> >>,
               << <<RowShort, RowNoKey, Row200>> >> }
        ELSE {})

\* cols = [c.text.strip() for c in r.find_elements("./td")]
StripCols(row) == [c \in 1..Len(row.cols) |-> strip(row.cols[c])]

\* parse_current_table of PesqEle.py
parse_current_table(page) ==
  LET wide == SelectSeq(page, LAMBDA row : Len(row.cols) >= 5) IN
  [n \in 1..Len(wide) |->
     LET cols == StripCols(wide[n]) IN
     [numero_identificacao |-> cols[1], eleicao |-> cols[2],
      empresa_contratada |-> cols[3], data_registro |-> cols[4],
      abrangencia |-> cols[5]]]

\* parse_current_table_with_details of scraper_pesqele.py
parse_current_table_with_details(page) ==
  LET wide == SelectSeq(page, LAMBDA row : Len(row.cols) >= 5) IN
  [n \in 1..Len(wide) |->
     LET cols == StripCols(wide[n]) IN
     [numero_identificacao |-> cols[1], eleicao |-> cols[2],
      empresa_contratada |-> cols[3], data_registro |-> cols[4],
      abrangencia |-> cols[5], data_divulgacao |-> wide[n].detail]]

\* all_rows of scrape_all_pages_current_query: the pages in pager order
RECURSIVE Flatten(_)
Flatten(lists) == IF lists = <<>> THEN <<>> ELSE Head(lists) \o Flatten(Tail(lists))

\* scrape_all_pages_current_query of PesqEle.py
PesqEle_scrape_all_pages_current_query(table) ==
  dedup_by_numero(Flatten([p \in 1..Len(table) |-> parse_current_table(table[p])]))

\* scrape_all_pages_current_query of scraper_pesqele.py
scrape_all_pages_current_query(table) ==
  dedup_by_numero(Flatten([p \in 1..Len(table) |-> parse_current_table_with_details(table[p])]))

\* strftime("%d/%m/%Y %H:%M:%S") of the clock at run r
now_str(r) ==
  LET d == CHOOSE c \in Digit : Code(c) = 48 + (r % 10) IN
  <<"0", d, "/", "1", "1", "/", "2", "0", "2", "6", " ",
    "1", "0", ":", "0", "0", ":", "0", "0">>

\* run_one_scope of scraper_pesqele.py, after the menus and the search
run_one_scope(table, uf_text, now) ==
  LET rows == scrape_all_pages_current_query(table) IN
  [n \in 1..Len(rows) |->
     FillRow([c \in DOMAIN rows[n] \cup {"uf_filtro", "capturado_em"} |->
                IF c = "uf_filtro" THEN uf_text
                ELSE IF c = "capturado_em" THEN now
                ELSE rows[n][c]])]

\* the new_rows loop of run_daily_scrape_to_sheets (PesqEle.py)
NewRows(rows, existing_ids, uf_clean, now) ==
  LET fresh == SelectSeq(rows, LAMBDA r : KeyOf(r) # EmptyStr /\ KeyOf(r) \notin existing_ids) IN
  [n \in 1..Len(fresh) |->
     <<KeyOf(fresh[n]), fresh[n].eleicao, fresh[n].empresa_contratada,
       fresh[n].data_registro, fresh[n].abrangencia, uf_clean, now>>]

\* ------------------------------------------------------------------------
\* Region menu
\* ------------------------------------------------------------------------
Lowercase ==
  <<"a", "b", "c", "d", "e", "f", "g", "h", "i", "j", "k", "l", "m",
    "n", "o", "p", "q", "r", "s", "t", "u", "v", "w", "x", "y", "z">>
Uppercase ==
  <<"A", "B", "C", "D", "E", "F", "G", "H", "I", "J", "K", "L", "M",
    "N", "O", "P", "Q", "R", "S", "T", "U", "V", "W", "X", "Y", "Z">>

Recase(s, from, to) ==
  [i \in 1..Len(s) |->
     IF \E n \in 1..26 : from[n] = s[i]
     THEN to[CHOOSE n \in 1..26 : from[n] = s[i]]
     ELSE s[i]]

\* str.lower() and str.upper()
lower(s) == Recase(s, Uppercase, Lowercase)
upper(s) == Recase(s, Lowercase, Uppercase)

SELECIONE == <<"S", "e", "l", "e", "c", "i", "o", "n", "e">>
BRASIL == <<"B", "R", "A", "S", "I", "L">>
AC == <<"A", "C">>
SP == <<"S", "P">>

Dashboard == <<"D", "a", "s", "h", "b", "o", "a", "r", "d">>

SKIP_SHEETS == {Dashboard}

\* the <li> texts of the region dropdown, in page order; the spreadsheet's
\* dashboard tab has a namesake among them
UFMenu == <<SELECIONE, BRASIL, AC, Dashboard, SP>>

\* list_one_menu_items, after the menu has opened
list_one_menu_items(lis) ==
  LET texts == [n \in 1..Len(lis) |-> strip(lis[n])] IN
  SelectSeq(texts, LAMBDA t : t # EmptyStr /\ lower(t) # lower(SELECIONE))

\* faulty variant of WithoutBrasil: keeps every item
WithBrasil(items) == items

\* ufs = [u for u in ufs if u.upper() != "BRASIL"]
WithoutBrasil(items) == SelectSeq(items, LAMBDA u : upper(u) # BRASIL)

\* the scopes one run of a script goes through, in order
Enumeration(scr) ==
  IF scr = "PesqEle"
  THEN SelectSeq(WithoutBrasil(list_one_menu_items(UFMenu)), LAMBDA u : strip(u) # EmptyStr)
  ELSE <<BRASIL>> \o SelectSeq(WithoutBrasil(list_one_menu_items(UFMenu)),
                                 LAMBDA u : u \notin SKIP_SHEETS)

\* ------------------------------------------------------------------------
\* State
\* ------------------------------------------------------------------------
VARIABLES
  script,     \* which script runs: "PesqEle" or "scraper_pesqele"
  pc,         \* position of the driver function
  run,        \* number of runs started
  ss,         \* the spreadsheet: worksheet title -> rows
  ufs,        \* the ufs list of the running driver
  i,          \* index into ufs of the next loop iteration
  attempted,  \* scopes whose processing has begun in this run
  failed,     \* scopes whose processing raised in this run
  driver,     \* browser session: "none", "open" or "quit"
  exc,        \* the run is leaving the driver function by an exception
  clean,      \* no run so far has left the driver function by an exception
  last,       \* the most recent reconciliation of a tab
  searched,   \* scopes of this run in the order their processing began
  config,     \* what the run found of its configuration
  df_in,      \* batch handed to insert_new_rows_top when called on its own
  calls,      \* results of the calls of insert_new_rows_top on df_in
  rows_in,    \* input of dedup_by_numero when called on its own
  rows_out,   \* its output
  date_in,    \* value handed to the date parsers when called on their own
  date_out,   \* what parse_br_date_to_iso and parse_br_datetime_to_iso return
  site,       \* the result table the site holds for the current search
  browser,    \* what the browser session shows
  crawl       \* position and locals of the page-walking functions

vars == <<script, pc, run, ss, ufs, i, attempted, failed, driver, exc, clean, last,
          searched, config, df_in, calls, rows_in, rows_out, date_in, date_out,
          site, browser, crawl>>

Scripts == {"PesqEle", "scraper_pesqele"}

\* the date parsers have not been called
NoDates == [date |-> EmptyStr, datetime |-> EmptyStr]

\* no search has been made and no page-walking function is running
NoSite == [pages |-> <<>>, pager |-> FALSE]
NoBrowser == [view |-> "none", active |-> 0, dom |-> 0]
NoCrawl ==
  [pc |-> "none", page_num |-> 0, tries |-> 0, last_err |-> "none", outcome |-> "none",
   error |-> "none", ret |-> "none", swallow |-> FALSE,
   pages |-> <<>>, p |-> 0, all_rows |-> <<>>, visited |-> <<>>, goto_calls |-> 0,
   result |-> <<>>,
   r |-> 0, iter_dom |-> 0, rows_dom |-> 0, current_page |-> 0, out |-> <<>>,
   iter |-> <<>>, data_div |-> None, opened |-> 0, failures |-> 0, failed_rows |-> {}]

Offline == site = NoSite /\ browser = NoBrowser /\ crawl = NoCrawl

\* no reconciliation yet
NoMerge == [title |-> EmptyStr, n |-> 0, raised |-> FALSE, log |-> <<>>]

\* first row of the data region as each script lays a tab out
Anchor(scr) == IF scr = "PesqEle" THEN INSERT_AT_ROW ELSE DATA_START_ROW

DataRows(scr, ws) == SubSeq(ws, Anchor(scr), Len(ws))

\* header row as each script lays a tab out
HeaderOf(scr, ws) == row_values(ws, IF scr = "PesqEle" THEN 1 ELSE HEADER_ROW)

FixedHeader(scr) == IF scr = "PesqEle" THEN AsCells(header) ELSE AsCells(COLS_BASE)

\* ------------------------------------------------------------------------
\* Tabs a run can find in the spreadsheet
\* ------------------------------------------------------------------------
\* rows of an earlier run for keys 100 and 200, in the layout of each script
StoredRow(key) ==
  <<key, <<"Eleicoes Gerais 2026">>, <<"F1">>, parse_br_date_to_iso(D0103), <<"Nacional">>,
    parse_br_date_to_iso(D0503), AC, parse_br_datetime_to_iso(now_str(0))>>

StoredRowShort(key) ==
  <<key, <<"Eleicoes Gerais 2026">>, <<"F1">>, D0103, <<"Nacional">>, AC, now_str(0)>>

\* tab as scraper_pesqele.py leaves it: header in row 3, data from row 4
TabScraper == << <<>>, <<>>, AsCells(COLS_BASE), StoredRow(K100), StoredRow(K200) >>
\* tab as PesqEle.py leaves it: header in row 1, data from row 2
TabPesqEle == << AsCells(header), StoredRowShort(K100) >>
\* header row with a ninth cell
TabLongHeader == << <<>>, <<>>, AsCells(COLS_BASE) \o << <<"obs">> >>, StoredRow(K100) >>
\* header row with two columns swapped
TabReordered ==
  << <<>>, <<>>,
     AsCells(<<"eleicao", "numero_identificacao", "empresa_contratada", "data_registro",
               "abrangencia", "data_divulgacao", "uf_filtro", "capturado_em">>),
     StoredRow(K100) >>
\* a title line in row 1 and nothing else
TabTitled == << << <<"Pesquisas">> >> >>

InitTabs == {TabScraper, TabPesqEle, TabLongHeader, TabReordered, TabTitled, <<>>}

\* a spreadsheet without tabs
NoSheets == [t \in {} |-> <<>>]

\* the spreadsheets a run starts from: no tab, or a tab for AC left by either
\* script or holding only a title line
InitSpreadsheets ==
  {NoSheets} \cup {WithSheet(NoSheets, AC, t) : t \in {TabScraper, TabPesqEle, TabTitled}}

\* ------------------------------------------------------------------------
\* The driver functions: run_daily_scrape_to_sheets (PesqEle.py) and
\* run_to_google_sheets_insert_dedup (scraper_pesqele.py)
\* ------------------------------------------------------------------------
Init ==
  /\ script \in Scripts
  /\ pc = "idle"
  /\ run = 0
  /\ ss \in InitSpreadsheets
  /\ ufs = <<>>
  /\ i = 1
  /\ attempted = {}
  /\ failed = {}
  /\ driver = "none"
  /\ exc = FALSE
  /\ clean = TRUE
  /\ last = NoMerge
  /\ searched = <<>>
  /\ config = "unread"
  /\ df_in = <<>>
  /\ calls = <<>>
  /\ rows_in = <<>>
  /\ rows_out = <<>>
  /\ date_in = None
  /\ date_out = NoDates
  /\ Offline

alone == <<df_in, calls, rows_in, rows_out, date_in, date_out, site, browser, crawl>>

\* clean after a step that sets exc
StaysClean == clean' = (clean /\ ~exc')

\* what the configuration check of a run can find: connect_gsheets raises on
\* an empty SPREADSHEET_ID or GOOGLE_CREDENTIALS_JSON; gspread_client raises
\* on a missing credentials file and open_spreadsheet on an empty
\* SPREADSHEET_ID
ConfigStates == {"ok", "no_id", "no_credentials"}

\* faulty variant of Begin: the browser session is made before the
\* configuration is looked at
BeginDriverFirst ==
  /\ pc = "idle"
  /\ run < MaxRuns
  /\ run' = run + 1
  /\ driver' = "open"
  /\ attempted' = {}
  /\ failed' = {}
  /\ searched' = <<>>
  /\ ufs' = <<>>
  /\ i' = 1
  /\ \E cfg \in ConfigStates :
       /\ config' = cfg
       /\ IF cfg = "ok"
          THEN pc' = "get" /\ exc' = FALSE
          ELSE pc' = "idle" /\ exc' = TRUE
  /\ StaysClean
  /\ UNCHANGED <<script, ss, last>>
  /\ UNCHANGED alone

\* first statements of a driver function: ss = connect_gsheets() in
\* PesqEle.py, gspread_client(CREDS_PATH) and open_spreadsheet(gc) in
\* scraper_pesqele.py.  A missing configuration raises out of the function.
Begin ==
  /\ pc = "idle"
  /\ run < MaxRuns
  /\ run' = run + 1
  /\ driver' = "none"
  /\ attempted' = {}
  /\ failed' = {}
  /\ searched' = <<>>
  /\ ufs' = <<>>
  /\ i' = 1
  /\ \E cfg \in ConfigStates :
       /\ config' = cfg
       /\ IF cfg = "ok"
          THEN pc' = "make" /\ exc' = FALSE
          ELSE pc' = "idle" /\ exc' = TRUE
  /\ StaysClean
  /\ UNCHANGED <<script, ss, last>>
  /\ UNCHANGED alone

\* driver = make_driver(headless); webdriver.Chrome(...) either gives a
\* session or raises without one
MakeDriver ==
  /\ pc = "make"
  /\ \E made \in BOOLEAN :
       IF made
       THEN driver' = "open" /\ pc' = "get" /\ exc' = FALSE
       ELSE driver' = "none" /\ pc' = "idle" /\ exc' = TRUE
  /\ StaysClean
  /\ UNCHANGED <<script, run, ss, ufs, i, attempted, failed, last, searched, config>>
  /\ UNCHANGED alone

\* first statements inside try: driver.get, wait_dom_ready; PesqEle.py also
\* selects the election here.  A failure of the page goes to finally.
OpenPage ==
  /\ pc = "get"
  /\ \E page_ok \in BOOLEAN :
       IF page_ok
       THEN pc' = (IF script = "PesqEle" THEN "list" ELSE "brasil") /\ exc' = FALSE
       ELSE pc' = "quit" /\ exc' = TRUE
  /\ StaysClean
  /\ UNCHANGED <<script, run, ss, ufs, i, attempted, failed, driver, last, searched, config>>
  /\ UNCHANGED alone

\* what one reconciliation leaves in last: the tab, the number of rows it
\* handed to the store, whether it raised, and the store's attempt log
Merged(title, res) ==
  [title |-> title, n |-> Len(res.values), raised |-> res.raised, log |-> res.log]

\* the BRASIL scope of scraper_pesqele.py: outside the per-UF try
Brasil ==
  /\ pc = "brasil"
  /\ attempted' = attempted \cup {BRASIL}
  /\ searched' = Append(searched, BRASIL)
  /\ \E table \in SourceTables(BRASIL), ui_ok \in BOOLEAN, outcome \in InsertOutcome :
       IF ~ui_ok
       THEN /\ failed' = failed \cup {BRASIL}
            /\ pc' = "quit"
            /\ exc' = TRUE
            /\ UNCHANGED <<ss, last>>
       ELSE LET df == run_one_scope(table, BRASIL, now_str(run))
                ws == ensure_worksheet(ss, BRASIL)
                res == insert_new_rows_top(ws, df, outcome)
            IN /\ ss' = WithSheet(ss, sheet_safe(BRASIL), res.ws)
               /\ last' = Merged(sheet_safe(BRASIL), res)
               /\ failed' = (IF res.raised THEN failed \cup {BRASIL} ELSE failed)
               /\ pc' = (IF res.raised THEN "quit" ELSE "list")
               /\ exc' = res.raised
  /\ StaysClean
  /\ UNCHANGED <<script, run, ufs, i, driver, config>>
  /\ UNCHANGED alone

\* ufs = list_one_menu_items(...) without BRASIL; open_menu can raise
ListUFs ==
  /\ pc = "list"
  /\ \E menu_ok \in BOOLEAN :
       IF menu_ok
       THEN /\ ufs' = WithoutBrasil(list_one_menu_items(UFMenu))
            /\ pc' = "loop"
            /\ exc' = FALSE
       ELSE /\ ufs' = ufs
            /\ pc' = "quit"
            /\ exc' = TRUE
  /\ i' = 1
  /\ StaysClean
  /\ UNCHANGED <<script, run, ss, attempted, failed, driver, last, searched, config>>
  /\ UNCHANGED alone

\* one iteration of "for uf in ufs" of scraper_pesqele.py: try ... except
\* Exception: continue
ScraperUF ==
  /\ pc = "loop"
  /\ script = "scraper_pesqele"
  /\ i <= Len(ufs)
  /\ i' = i + 1
  /\ LET uf == ufs[i] IN
     IF uf \in SKIP_SHEETS
     THEN UNCHANGED <<ss, last, attempted, failed, searched>>
     ELSE
       /\ attempted' = attempted \cup {uf}
       /\ searched' = Append(searched, uf)
       /\ \E table \in SourceTables(uf), ui_ok \in BOOLEAN, outcome \in InsertOutcome :
            IF ~ui_ok
            THEN /\ failed' = failed \cup {uf}
                 /\ UNCHANGED <<ss, last>>
            ELSE LET df == run_one_scope(table, uf, now_str(run))
                     ws == ensure_worksheet(ss, uf)
                     res == insert_new_rows_top(ws, df, outcome)
                 IN /\ ss' = WithSheet(ss, sheet_safe(uf), res.ws)
                    /\ last' = Merged(sheet_safe(uf), res)
                    /\ failed' = (IF res.raised THEN failed \cup {uf} ELSE failed)
  /\ UNCHANGED <<script, pc, run, ufs, driver, exc, clean, config>>
  /\ UNCHANGED alone

\* number of chunks insert_rows_batched cuts n rows into
Chunks(n, size) == (n + size - 1) \div size

\* one iteration of "for uf in ufs" of PesqEle.py: no try around the body,
\* an exception leaves the loop for the finally clause
PesqEleUF ==
  /\ pc = "loop"
  /\ script = "PesqEle"
  /\ i <= Len(ufs)
  /\ i' = i + 1
  /\ LET uf_clean == strip(ufs[i]) IN
     IF uf_clean = EmptyStr
     THEN UNCHANGED <<ss, last, attempted, failed, searched, pc, exc>>
     ELSE
       /\ attempted' = attempted \cup {uf_clean}
       /\ searched' = Append(searched, uf_clean)
       /\ LET title == PesqEle_sheet_safe(uf_clean)
              ws == PesqEle_ensure_worksheet(ss, uf_clean, header)
              existing_ids == read_existing_ids(ws, "numero_identificacao")
          IN \E table \in SourceTables(uf_clean), ui_ok \in BOOLEAN :
               IF ~ui_ok
               THEN /\ ss' = WithSheet(ss, title, ws)
                    /\ failed' = failed \cup {uf_clean}
                    /\ pc' = "quit"
                    /\ exc' = TRUE
                    /\ UNCHANGED last
               ELSE
                 LET rows == PesqEle_scrape_all_pages_current_query(table)
                     new_rows == NewRows(rows, existing_ids, uf_clean, now_str(run))
                 IN \E plan \in [1..Chunks(Len(new_rows), batch_size) -> AttemptPlan] :
                      LET res == insert_rows_batched(ws, new_rows, INSERT_AT_ROW, batch_size, plan)
                      IN /\ ss' = WithSheet(ss, title, res.ws)
                         /\ last' = Merged(title, [values |-> new_rows, raised |-> res.raised,
                                                   log |-> res.log])
                         /\ failed' = (IF res.raised THEN failed \cup {uf_clean} ELSE failed)
                         /\ pc' = (IF res.raised THEN "quit" ELSE pc)
                         /\ exc' = res.raised
  /\ StaysClean
  /\ UNCHANGED <<script, run, ufs, driver, config>>
  /\ UNCHANGED alone

\* the loop has gone through ufs
LoopEnd ==
  /\ pc = "loop"
  /\ i > Len(ufs)
  /\ pc' = "quit"
  /\ UNCHANGED <<script, run, ss, ufs, i, attempted, failed, driver, exc, clean, last,
                 searched, config>>
  /\ UNCHANGED alone

\* faulty variant of Quit: the session is quit only when the crawl ended
\* without an exception
QuitUnlessRaised ==
  /\ pc = "quit"
  /\ driver' = (IF exc THEN driver ELSE "quit")
  /\ pc' = "idle"
  /\ UNCHANGED <<script, run, ss, ufs, i, attempted, failed, exc, clean, last,
                 searched, config>>
  /\ UNCHANGED alone

\* finally: driver.quit(); the run is over.  quit() ends the session also
\* when it raises; scraper_pesqele.py swallows that exception, PesqEle.py
\* lets it leave the driver function.
Quit ==
  /\ pc = "quit"
  /\ driver' = "quit"
  /\ pc' = "idle"
  /\ \E quit_ok \in BOOLEAN :
       exc' = (exc \/ (~quit_ok /\ script = "PesqEle"))
  /\ StaysClean
  /\ UNCHANGED <<script, run, ss, ufs, i, attempted, failed, last, searched, config>>
  /\ UNCHANGED alone

Next ==
  Begin \/ MakeDriver \/ OpenPage \/ Brasil \/ ListUFs \/ ScraperUF \/ PesqEleUF
  \/ LoopEnd \/ Quit

Spec == Init /\ [][Next]_vars

\* ------------------------------------------------------------------------
\* insert_new_rows_top called on its own: any batch, any tab, twice
\* ------------------------------------------------------------------------
DfRow(key, firm, div) ==
  [numero_identificacao |-> key, eleicao |-> <<"Eleicoes Gerais 2026">>,
   empresa_contratada |-> <<firm>>, data_registro |-> D0103,
   abrangencia |-> <<"Nacional">>, data_divulgacao |-> div,
   uf_filtro |-> AC, capturado_em |-> now_str(1)]

BatchRows ==
  { DfRow(K100, "F1", D0503),
    DfRow(K200, "F1", DShort),
    DfRow(K300, "F1", D1003),
    DfRow(<<" ">> \o K100, "F2", D0503),
    DfRow(K300 \o <<"0">>, "F2", D0503),
    DfRow(EmptyStr, "F2", None) }

Batches == UNION {[1..n -> BatchRows] : n \in 0..MaxBatch}

InitMerge ==
  /\ script = "scraper_pesqele"
  /\ pc = "merge"
  /\ run = 0
  /\ ss \in {WithSheet(NoSheets, AC, t) : t \in InitTabs}
  /\ ufs = <<>>
  /\ i = 1
  /\ attempted = {}
  /\ failed = {}
  /\ driver = "none"
  /\ exc = FALSE
  /\ clean = TRUE
  /\ last = NoMerge
  /\ searched = <<>>
  /\ config = "unread"
  /\ df_in \in Batches
  /\ calls = <<>>
  /\ rows_in = <<>>
  /\ rows_out = <<>>
  /\ date_in = None
  /\ date_out = NoDates
  /\ Offline

MergeCall ==
  /\ pc = "merge"
  /\ Len(calls) < MaxCalls
  /\ \E outcome \in InsertOutcome :
       LET res == insert_new_rows_top(ss[AC], df_in, outcome) IN
       /\ ss' = WithSheet(ss, AC, res.ws)
       /\ calls' = Append(calls, [before |-> ss[AC], after |-> res.ws, ret |-> res.ret,
                                  raised |-> res.raised])
       /\ last' = Merged(AC, res)
  /\ UNCHANGED <<script, pc, run, ufs, i, attempted, failed, driver, exc, clean,
                 searched, config, df_in, rows_in, rows_out, date_in, date_out,
                 site, browser, crawl>>

NextMerge == MergeCall

SpecMerge == InitMerge /\ [][NextMerge]_vars

\* ------------------------------------------------------------------------
\* dedup_by_numero called on its own
\* ------------------------------------------------------------------------
TableRecord(key, firm) ==
  [numero_identificacao |-> key, eleicao |-> <<"Eleicoes Gerais 2026">>,
   empresa_contratada |-> <<firm>>, data_registro |-> D0103,
   abrangencia |-> <<"Nacional">>]

DedupRows ==
  { TableRecord(K100, "F1"), TableRecord(K100, "F2"),
    TableRecord(<<" ">> \o K100, "F3"), TableRecord(K200, "F1"),
    TableRecord(EmptyStr, "F1"), TableRecord(None, "F2") }

InitDedup ==
  /\ script = "scraper_pesqele"
  /\ pc = "dedup"
  /\ run = 0
  /\ ss = NoSheets
  /\ ufs = <<>>
  /\ i = 1
  /\ attempted = {}
  /\ failed = {}
  /\ driver = "none"
  /\ exc = FALSE
  /\ clean = TRUE
  /\ last = NoMerge
  /\ searched = <<>>
  /\ config = "unread"
  /\ df_in = <<>>
  /\ calls = <<>>
  /\ rows_in \in UNION {[1..n -> DedupRows] : n \in 0..MaxRows}
  /\ rows_out = <<>>
  /\ date_in = None
  /\ date_out = NoDates
  /\ Offline

DedupCall ==
  /\ pc = "dedup"
  /\ rows_out' = dedup_by_numero(rows_in)
  /\ pc' = "deduped"
  /\ UNCHANGED <<script, run, ss, ufs, i, attempted, failed, driver, exc, clean, last,
                 searched, config, df_in, calls, rows_in, date_in, date_out,
                 site, browser, crawl>>

NextDedup == DedupCall

SpecDedup == InitDedup /\ [][NextDedup]_vars

\* ------------------------------------------------------------------------
\* parse_br_date_to_iso and parse_br_datetime_to_iso called on their own
\* ------------------------------------------------------------------------
\* the variables of the driver functions
pipeline == <<script, pc, run, ss, ufs, i, attempted, failed, driver, exc, clean, last,
              searched, config>>

\* the driver functions and the store at rest
Parked ==
  /\ run = 0
  /\ ss = NoSheets
  /\ ufs = <<>>
  /\ i = 1
  /\ attempted = {}
  /\ failed = {}
  /\ driver = "none"
  /\ exc = FALSE
  /\ clean = TRUE
  /\ last = NoMerge
  /\ searched = <<>>
  /\ config = "unread"
  /\ df_in = <<>>
  /\ calls = <<>>
  /\ rows_in = <<>>
  /\ rows_out = <<>>

\* n whitespace characters
Blanks(n) == [j \in 1..n |-> " "]

Pads == {Blanks(n) : n \in 0..MaxPad}

Days == { <<"0", "5">>, <<"5">>, <<"3", "1">> }
Months == { <<"0", "3">>, <<"3">> }
Years == { <<"2", "0", "2", "6">>, <<"2", "6">> }
Separators == {"/", "-"}
Clocks ==
  { <<"1", "0", ":", "0", "0", ":", "0", "0">>,
    <<"9", ":", "0", "0", ":", "0", "0">>,
    <<"1", "0", ":", "0", "0">> }

\* day, month and year texts with their separators
DateCores ==
  {d \o <<a>> \o m \o <<b>> \o y :
     d \in Days, a \in Separators, m \in Months, b \in Separators, y \in Years}

\* the texts the parsers are tried on: a date or a date and a clock time,
\* with whitespace around and between, and the values without any text
DateInputs ==
  {l \o c \o r : l \in Pads, c \in DateCores, r \in Pads}
  \cup {l \o c \o Blanks(g) \o k \o r :
          l \in Pads, c \in DateCores, g \in 0..(MaxPad + 1), k \in Clocks, r \in Pads}
  \cup {EmptyStr, None}

InitDates ==
  /\ script = "scraper_pesqele"
  /\ pc = "date"
  /\ Parked
  /\ date_in \in DateInputs
  /\ date_out = NoDates
  /\ Offline

ParseCall ==
  /\ pc = "date"
  /\ date_out' = [date |-> parse_br_date_to_iso(date_in),
                  datetime |-> parse_br_datetime_to_iso(date_in)]
  /\ pc' = "parsed"
  /\ UNCHANGED <<script, run, ss, ufs, i, attempted, failed, driver, exc, clean, last,
                 searched, config, df_in, calls, rows_in, rows_out, date_in,
                 site, browser, crawl>>

NextDates == ParseCall

SpecDates == InitDates /\ [][NextDates]_vars

\* ------------------------------------------------------------------------
\* The result list in the browser: pages, pager, row handles
\* ------------------------------------------------------------------------
\* rows one page of a result table can show
PageCatalogue ==
  { <<Row100, Row200>>, <<Row300, Row100>>, <<RowShort, Row300b>> }

\* the result tables of up to MaxPages pages; <<>> is a search without
\* results, whose list shows one page without rows
Tables == UNION {[1..n -> PageCatalogue] : n \in 0..MaxPages}

Max(a, b) == IF a > b THEN a ELSE b

\* a.ui-paginator-page: the page numbers the pager links to while page
\* active is shown, at most PageLinks of them around the active page
PagerLinks(st, active) ==
  LET n == Len(st.pages)
      lo == Max(1, Min(active - (PageLinks \div 2), n - PageLinks + 1))
      hi == Min(n, lo + PageLinks - 1)
  IN IF st.pager /\ n > 0 THEN lo..hi ELSE {}

\* sorted(set(nums)) of get_page_numbers, once the pager is present
get_page_numbers(st, br) ==
  LET links == PagerLinks(st, br.active)
      lo == CHOOSE a \in links : \A b \in links : a <= b
  IN IF links = {} THEN <<>> ELSE [j \in 1..Cardinality(links) |-> lo + j - 1]

\* the <tr> rows of the list as the browser shows it
ShownRows(st, br) ==
  IF br.view = "list" /\ br.active \in 1..Len(st.pages) THEN st.pages[br.active] ELSE <<>>

\* ------------------------------------------------------------------------
\* go_to_page
\* ------------------------------------------------------------------------
\* max_tries: 6 in PesqEle.py, 8 in scraper_pesqele.py
max_tries(scr) == IF scr = "PesqEle" THEN 6 ELSE 8

\* how one pass of the try body of go_to_page can end: it returns, or raises
\* StaleElementReferenceException, ElementClickInterceptedException,
\* TimeoutException, or NoSuchElementException (no link for the page)
Transient == {"stale", "intercepted", "timeout", "not_found"}

\* what the except clause of go_to_page catches; NoSuchElementException is a
\* WebDriverException and none of the three classes PesqEle.py names
Caught(scr) ==
  IF scr = "PesqEle" THEN {"stale", "intercepted", "timeout"} ELSE Transient

\* the ends one pass can take with the browser as it is: without the list
\* the wait for the pager times out, without a link for the page the lookup
\* fails
Possible(st, br, page_num) ==
  IF br.view # "list" THEN {"timeout"}
  ELSE IF page_num \in PagerLinks(st, br.active) THEN Transient \cup {"ok"}
  ELSE {"not_found", "timeout"}

\* the list after the link for page_num was clicked: a click on the active
\* page changes nothing, any other renders a new table body
Clicked(br, page_num) ==
  IF page_num = br.active THEN br
  ELSE [br EXCEPT !.active = page_num, !.dom = br.dom + 1]

\* the caller's position after go_to_page raised err
Raised(c, err) ==
  IF c.swallow THEN [c EXCEPT !.pc = c.ret]
  ELSE [c EXCEPT !.pc = "raised", !.error = err]

\* one pass of "for _ in range(max_tries)" of go_to_page, with the raise
\* after the loop when it was the last pass
GoToPageAttempt ==
  /\ crawl.pc = "goto"
  /\ crawl.tries < max_tries(script)
  /\ \E end \in Possible(site, browser, crawl.page_num) :
       LET c == [crawl EXCEPT !.tries = crawl.tries + 1, !.outcome = end] IN
       IF end = "ok"
       THEN /\ browser' = Clicked(browser, crawl.page_num)
            /\ crawl' = [c EXCEPT !.pc = c.ret]
       ELSE /\ browser' = browser
            /\ crawl' =
                 IF end \notin Caught(script) THEN Raised(c, end)
                 ELSE IF c.tries = max_tries(script)
                 THEN Raised([c EXCEPT !.last_err = end], end)
                 ELSE [c EXCEPT !.last_err = end]
  /\ UNCHANGED pipeline
  /\ UNCHANGED <<df_in, calls, rows_in, rows_out, date_in, date_out, site>>

\* go_to_page called on its own
InitGoto ==
  /\ script \in Scripts
  /\ pc = "crawl"
  /\ Parked
  /\ date_in = None
  /\ date_out = NoDates
  /\ site \in {[pages |-> t, pager |-> TRUE] : t \in Tables \ {<<>>}}
  /\ browser \in {[view |-> "list", active |-> a, dom |-> 0] : a \in 1..Len(site.pages)}
  /\ crawl \in {[NoCrawl EXCEPT !.pc = "goto", !.page_num = n, !.ret = "returned"] :
                  n \in 1..MaxPages}

NextGoto == GoToPageAttempt

SpecGoto == InitGoto /\ [][NextGoto]_vars

\* ------------------------------------------------------------------------
\* scrape_all_pages_current_query called on its own
\* ------------------------------------------------------------------------
\* the extractor each script runs on the page the browser shows; the detail
\* excursions of scraper_pesqele.py are taken to succeed here
ParseShown(scr, st, br) ==
  IF scr = "PesqEle" THEN parse_current_table(ShownRows(st, br))
  ELSE parse_current_table_with_details(ShownRows(st, br))

\* the locals of a caller set for go_to_page(page_num)
CallGoTo(c, page_num, ret, swallow) ==
  [c EXCEPT !.pc = "goto", !.page_num = page_num, !.tries = 0, !.last_err = "none",
            !.ret = ret, !.swallow = swallow, !.goto_calls = c.goto_calls + 1]

\* pages = get_page_numbers(...); without a pager element the wait in
\* get_page_numbers times out; without page links the page shown is
\* parsed and returned
GetPageNumbers ==
  /\ crawl.pc = "pages"
  /\ crawl' =
       IF ~site.pager THEN [crawl EXCEPT !.pc = "raised", !.error = "timeout"]
       ELSE LET pages == get_page_numbers(site, browser) IN
            IF pages = <<>>
            THEN [crawl EXCEPT !.pc = "returned",
                               !.result = dedup_by_numero(ParseShown(script, site, browser))]
            ELSE CallGoTo([crawl EXCEPT !.pages = pages, !.p = 1], pages[1], "parse", FALSE)
  /\ UNCHANGED pipeline
  /\ UNCHANGED <<df_in, calls, rows_in, rows_out, date_in, date_out, site, browser>>

\* all_rows.extend(parse...) for page p, then the next go_to_page or the
\* return of dedup_by_numero(all_rows)
ParsePage ==
  /\ crawl.pc = "parse"
  /\ LET c == [crawl EXCEPT !.all_rows = crawl.all_rows \o ParseShown(script, site, browser),
                            !.visited = Append(crawl.visited, browser.active)]
     IN crawl' =
          IF c.p < Len(c.pages)
          THEN CallGoTo([c EXCEPT !.p = c.p + 1], c.pages[c.p + 1], "parse", FALSE)
          ELSE [c EXCEPT !.pc = "returned", !.result = dedup_by_numero(c.all_rows)]
  /\ UNCHANGED pipeline
  /\ UNCHANGED <<df_in, calls, rows_in, rows_out, date_in, date_out, site, browser>>

InitPager ==
  /\ script \in Scripts
  /\ pc = "crawl"
  /\ Parked
  /\ date_in = None
  /\ date_out = NoDates
  /\ site \in {[pages |-> t, pager |-> g] : t \in Tables, g \in BOOLEAN}
  /\ browser = [view |-> "list", active |-> 1, dom |-> 0]
  /\ crawl = [NoCrawl EXCEPT !.pc = "pages"]

NextPager == GetPageNumbers \/ GoToPageAttempt \/ ParsePage

SpecPager == InitPager /\ [][NextPager]_vars

\* ------------------------------------------------------------------------
\* parse_current_table_with_details called on its own
\* ------------------------------------------------------------------------
\* A row handle is good for the document it was fetched from: browser.dom
\* counts the documents and table bodies the session has rendered, iter_dom
\* is the count when the list the for loop walks was fetched, rows_dom the
\* count when the name rows was last bound.

\* tbody, rows = ...; out = []; current_page = get_active_page(...)
StartTable ==
  /\ crawl.pc = "table"
  /\ crawl' = [crawl EXCEPT !.pc = "row", !.r = 1,
                            !.iter = ShownRows(site, browser),
                            !.iter_dom = browser.dom, !.rows_dom = browser.dom,
                            !.current_page = browser.active]
  /\ UNCHANGED pipeline
  /\ UNCHANGED <<df_in, calls, rows_in, rows_out, date_in, date_out, site, browser>>

\* "for r in rows" takes the next handle of the list it started with;
\* cols = [... r.find_elements("./td")] raises StaleElementReferenceException
\* on a handle of a document that is gone; a row of fewer than 5 cells is
\* passed over
ReadRow ==
  /\ crawl.pc = "row"
  /\ crawl.r <= Len(crawl.iter)
  /\ crawl' =
       IF browser.view # "list" \/ browser.dom # crawl.iter_dom
       THEN [crawl EXCEPT !.pc = "raised", !.error = "stale"]
       ELSE IF Len(crawl.iter[crawl.r].cols) < 5
       THEN [crawl EXCEPT !.r = crawl.r + 1]
       ELSE [crawl EXCEPT !.pc = "excursion"]
  /\ UNCHANGED pipeline
  /\ UNCHANGED <<df_in, calls, rows_in, rows_out, date_in, date_out, site, browser>>

\* how click_row_lupa_and_get_data_divulgacao can go up to its
\* wait_list_page_ready: no detail link in the row; the click raises; the
\* wait for the detail view times out with the list still shown; it times
\* out with the list gone; driver.back() or the wait for the list fails;
\* the detail view was read and the list is back
Excursions == {"no_link", "click_fails", "detail_timeout", "detail_lost", "back_fails", "back"}

\* the list after driver.back(): the document as it was, or a new document
\* that shows the page it was on or the first page
ListsAfterBack(br, current_page) ==
  {br} \cup {[br EXCEPT !.dom = br.dom + 1, !.active = a] : a \in {1, current_page}}

\* the excursion failed before the list was back: the record gets None
FailedExcursion(c) ==
  [c EXCEPT !.pc = "append", !.data_div = None, !.failures = c.failures + 1,
            !.failed_rows = c.failed_rows \cup {Len(c.out) + 1}]

\* click_row_lupa_and_get_data_divulgacao for row r, up to the call of
\* go_to_page that brings the list back to current_page
Excursion ==
  /\ crawl.pc = "excursion"
  /\ \E how \in Excursions :
       CASE how \in {"no_link", "click_fails", "detail_timeout"} ->
              /\ browser' = browser
              /\ crawl' = FailedExcursion(crawl)
         [] how \in {"detail_lost", "back_fails"} ->
              /\ browser' = [browser EXCEPT !.view = "detail", !.dom = browser.dom + 1]
              /\ crawl' = FailedExcursion(crawl)
         [] how = "back" ->
              \E br \in ListsAfterBack(browser, crawl.current_page) :
                LET found == crawl.iter[crawl.r].detail
                    c == [crawl EXCEPT !.data_div = found, !.opened = crawl.opened + 1,
                                       !.failed_rows =
                                         IF found = None
                                         THEN crawl.failed_rows \cup {Len(crawl.out) + 1}
                                         ELSE crawl.failed_rows]
                IN /\ browser' = br
                   /\ crawl' =
                        IF c.current_page > 1 /\ br.active # c.current_page
                        THEN CallGoTo(c, c.current_page, "append", TRUE)
                        ELSE [c EXCEPT !.pc = "append"]
  /\ UNCHANGED pipeline
  /\ UNCHANGED <<df_in, calls, rows_in, rows_out, date_in, date_out, site>>

\* out.append({...}); then tbody, rows are fetched again, which binds the
\* name rows and leaves the list the for loop walks as it is
AppendRecord ==
  /\ crawl.pc = "append"
  /\ LET cols == StripCols(crawl.iter[crawl.r])
         rec == [numero_identificacao |-> cols[1], eleicao |-> cols[2],
                 empresa_contratada |-> cols[3], data_registro |-> cols[4],
                 abrangencia |-> cols[5], data_divulgacao |-> crawl.data_div]
     IN crawl' = [crawl EXCEPT !.pc = "row", !.r = crawl.r + 1,
                               !.out = Append(crawl.out, rec),
                               !.rows_dom = IF browser.view = "list" THEN browser.dom
                                            ELSE crawl.rows_dom]
  /\ UNCHANGED pipeline
  /\ UNCHANGED <<df_in, calls, rows_in, rows_out, date_in, date_out, site, browser>>

\* return out
ReturnOut ==
  /\ crawl.pc = "row"
  /\ crawl.r > Len(crawl.iter)
  /\ crawl' = [crawl EXCEPT !.pc = "returned", !.result = crawl.out]
  /\ UNCHANGED pipeline
  /\ UNCHANGED <<df_in, calls, rows_in, rows_out, date_in, date_out, site, browser>>

InitPage ==
  /\ script = "scraper_pesqele"
  /\ pc = "crawl"
  /\ Parked
  /\ date_in = None
  /\ date_out = NoDates
  /\ site \in {[pages |-> t, pager |-> TRUE] : t \in Tables \ {<<>>}}
  /\ browser \in {[view |-> "list", active |-> a, dom |-> 0] : a \in 1..Len(site.pages)}
  /\ crawl = [NoCrawl EXCEPT !.pc = "table"]

NextPage ==
  StartTable \/ ReadRow \/ Excursion \/ GoToPageAttempt \/ AppendRecord \/ ReturnOut

SpecPage == InitPage /\ [][NextPage]_vars

\* ------------------------------------------------------------------------
\* open_menu and select_one_menu_by_text called on a dropdown
\* ------------------------------------------------------------------------
\* most options a dropdown of the model lists
MaxOptions == 2

\* texts of the <li> elements of a panel, character by character
MenuOptions ==
  { <<"S", "P">>, <<" ", "S", " ", " ", "P", " ">>, <<"E", "S", "P">>, <<"A", "C">> }

\* texts a caller asks for
MenuTexts == { <<"S", "P">>, <<"S", " ", "P">>, <<"R", "J">> }

Menus == UNION {[1..n -> MenuOptions] : n \in 0..MaxOptions}

\* runs of whitespace inside s become one space
RECURSIVE CollapseSpace(_)
CollapseSpace(s) ==
  IF Len(s) <= 1 THEN s
  ELSE IF s[1] \in Whitespace /\ s[2] \in Whitespace THEN CollapseSpace(Tail(s))
  ELSE IF s[1] \in Whitespace THEN <<" ">> \o CollapseSpace(Tail(s))
  ELSE <<s[1]>> \o CollapseSpace(Tail(s))

\* XPath normalize-space()
normalize_space(s) == CollapseSpace(strip(s))

\* XPath contains(s, t)
Contains(s, t) ==
  \E k \in 1..(Len(s) + 1) : k + Len(t) - 1 <= Len(s) /\ SubSeq(s, k, k + Len(t) - 1) = t

\* find_element: the first of the options that match, 0 when
\* NoSuchElementException
FirstOption(hits) ==
  IF hits = {} THEN 0 ELSE CHOOSE k \in hits : \A j \in hits : k <= j

ExactMatch(options, text) ==
  FirstOption({k \in 1..Len(options) : normalize_space(options[k]) = text})

SubstringMatch(options, text) ==
  FirstOption({k \in 1..Len(options) : Contains(normalize_space(options[k]), text)})

\* the option select_one_menu_by_text clicks, 0 when it finds none
Target(scr, options, text) ==
  IF ExactMatch(options, text) # 0 THEN ExactMatch(options, text)
  ELSE IF scr = "scraper_pesqele" THEN SubstringMatch(options, text)
  ELSE 0

\* range(8) in scraper_pesqele.py; PesqEle.py makes one pass
open_menu_passes(scr) == IF scr = "PesqEle" THEN 1 ELSE 8

\* what one pass of open_menu can meet: the panel shown, the panel present but
\* not displayed, or an exception of a wait or a click
MenuPass == {"visible", "hidden", "timeout", "stale"}

NoMenuCall ==
  [pc |-> "open_menu", text |-> EmptyStr, tries |-> 0, last_err |-> "none",
   error |-> "none", raised_in |-> "none", clicked |-> 0]

\* one pass of open_menu; the raise after the last pass of scraper_pesqele.py
\* and the exceptions PesqEle.py lets through are part of the pass
OpenMenuPass ==
  /\ crawl.pc = "open_menu"
  /\ crawl.tries < open_menu_passes(script)
  /\ \E outcome \in MenuPass :
       LET tries == crawl.tries + 1
           shown == IF outcome \in {"visible", "hidden"} THEN outcome ELSE "closed"
           err   == IF outcome \in {"visible", "hidden"} THEN crawl.last_err ELSE outcome
       IN  /\ browser' = [browser EXCEPT !.panel = shown]
           /\ crawl' =
                IF outcome = "visible"
                THEN [crawl EXCEPT !.pc = "find", !.tries = tries]
                ELSE IF script = "PesqEle"
                THEN [crawl EXCEPT !.pc = "raised", !.tries = tries,
                                   !.raised_in = "open_menu",
                                   !.error = IF outcome = "hidden" THEN "timeout" ELSE outcome]
                ELSE IF tries = open_menu_passes(script)
                THEN [crawl EXCEPT !.pc = "raised", !.tries = tries, !.last_err = err,
                                   !.raised_in = "open_menu", !.error = "timeout"]
                ELSE [crawl EXCEPT !.tries = tries, !.last_err = err]
  /\ UNCHANGED pipeline
  /\ UNCHANGED <<df_in, calls, rows_in, rows_out, date_in, date_out, site>>

\* select_one_menu_by_text after open_menu returned
SelectItem ==
  /\ crawl.pc = "find"
  /\ LET target == Target(script, site.options, crawl.text)
     IN  IF target = 0
         THEN /\ crawl' = [crawl EXCEPT !.pc = "raised", !.raised_in = "select",
                                        !.error = "not_found"]
              /\ browser' = IF script = "PesqEle" THEN browser
                            ELSE [browser EXCEPT !.panel = "closed"]
         ELSE /\ crawl' = [crawl EXCEPT !.pc = "returned", !.clicked = target]
              /\ browser' = [browser EXCEPT !.panel = "closed"]
  /\ UNCHANGED pipeline
  /\ UNCHANGED <<df_in, calls, rows_in, rows_out, date_in, date_out, site>>

InitMenu ==
  /\ script \in Scripts
  /\ pc = "crawl"
  /\ Parked
  /\ date_in = None
  /\ date_out = NoDates
  /\ site \in {[options |-> m] : m \in Menus}
  /\ browser = [panel |-> "closed"]
  /\ crawl \in {[NoMenuCall EXCEPT !.text = t] : t \in MenuTexts}

NextMenu == OpenMenuPass \/ SelectItem

SpecMenu == InitMenu /\ [][NextMenu]_vars

\* ------------------------------------------------------------------------
\* The search of each region: click_and_wait_table_refresh and the read of
\* the table that follows it
\* ------------------------------------------------------------------------
\* the regions searched one after the other
Regions == <<AC, SP>>

\* what the site answers to the search of each region
Answers ==
  {[uf \in {AC, SP} |-> IF uf = AC THEN a ELSE s] :
     a \in SourceTables(AC), s \in SourceTables(SP)}

\* the table the browser displays: the answer to the search of region shown,
\* no row before any search
Displayed(st, br) == IF br.shown = EmptyStr THEN <<>> ELSE st.answers[br.shown]

\* scrape_all_pages_current_query of each script
ReadTable(scr, table) ==
  IF scr = "PesqEle" THEN PesqEle_scrape_all_pages_current_query(table)
  ELSE scrape_all_pages_current_query(table)

\* the records of one scope: uf_filtro is the region selected; origin tells
\* the search that rendered the table they were read from
Attributed(rows, uf_text, origin) ==
  {[numero_identificacao |-> KeyOf(rows[n]), uf_filtro |-> uf_text, origin |-> origin] :
     n \in 1..Len(rows)}

NoSearch ==
  [pc |-> "select", i |-> 1, uf |-> EmptyStr, timed_out |-> FALSE,
   records |-> {}, failed |-> {}]

\* select_one_menu_by_text(ID_UF_LABEL, ID_UF_PANEL, uf)
SelectRegion ==
  /\ crawl.pc = "select"
  /\ crawl.i <= Len(Regions)
  /\ crawl' = [crawl EXCEPT !.pc = "click", !.uf = Regions[crawl.i], !.timed_out = FALSE]
  /\ UNCHANGED pipeline
  /\ UNCHANGED <<df_in, calls, rows_in, rows_out, date_in, date_out, site, browser>>

\* click_and_wait_table_refresh: the click starts the search; the site renders
\* the new table before the staleness wait ends, or it does not, in which
\* case TimeoutException is passed over and the tbody that is present is the
\* old one; with no tbody at all the presence wait raises
ClickAndWaitTableRefresh ==
  /\ crawl.pc = "click"
  /\ \E rendered \in BOOLEAN :
       LET old_tbody == browser.tbody IN
       /\ browser' =
            IF rendered
            THEN [shown |-> crawl.uf, tbody |-> old_tbody + 1, pending |-> EmptyStr]
            ELSE [browser EXCEPT !.pending = crawl.uf]
       /\ crawl' =
            IF ~rendered /\ old_tbody = 0
            THEN [crawl EXCEPT !.pc = "select", !.i = crawl.i + 1,
                               !.failed = crawl.failed \cup {crawl.uf}]
            ELSE [crawl EXCEPT !.pc = "scrape",
                               !.timed_out = ~rendered /\ old_tbody # 0]
  /\ UNCHANGED pipeline
  /\ UNCHANGED <<df_in, calls, rows_in, rows_out, date_in, date_out, site>>

\* the site renders the table of a search whose click was not answered in time
LateRender ==
  /\ browser.pending # EmptyStr
  /\ browser' = [shown |-> browser.pending, tbody |-> browser.tbody + 1, pending |-> EmptyStr]
  /\ UNCHANGED crawl
  /\ UNCHANGED pipeline
  /\ UNCHANGED <<df_in, calls, rows_in, rows_out, date_in, date_out, site>>

\* scrape_all_pages_current_query on the table displayed, and the region put
\* on its records
ScrapeScope ==
  /\ crawl.pc = "scrape"
  /\ LET rows == ReadTable(script, Displayed(site, browser)) IN
     crawl' = [crawl EXCEPT !.pc = "select", !.i = crawl.i + 1,
                            !.records = crawl.records
                                        \cup Attributed(rows, crawl.uf, browser.shown)]
  /\ UNCHANGED pipeline
  /\ UNCHANGED <<df_in, calls, rows_in, rows_out, date_in, date_out, site, browser>>

InitSearch ==
  /\ script \in Scripts
  /\ pc = "crawl"
  /\ Parked
  /\ date_in = None
  /\ date_out = NoDates
  /\ site \in {[answers |-> a] : a \in Answers}
  /\ browser \in {[shown |-> EmptyStr, tbody |-> b, pending |-> EmptyStr] : b \in {0, 1}}
  /\ crawl = NoSearch

NextSearch == SelectRegion \/ ClickAndWaitTableRefresh \/ LateRender \/ ScrapeScope

SpecSearch == InitSearch /\ [][NextSearch]_vars

\* ------------------------------------------------------------------------
\* insert_rows_batched (PesqEle.py) called on its own
\* ------------------------------------------------------------------------
\* a row of new_rows for region AC
NewRow(key) ==
  <<key, <<"Eleicoes Gerais 2026">>, <<"F1">>, D0103, <<"Nacional">>, AC, now_str(1)>>

NewKeys == {K100, K200, K300, <<"4", "0", "0">>}

\* the lists new_rows can be: rows with distinct keys, as dedup_by_numero
\* leaves them
NewRowLists ==
  UNION {{[j \in 1..n |-> NewRow(ks[j])] :
            ks \in {f \in [1..n -> NewKeys] : \A a, b \in 1..n : a # b => f[a] # f[b]}} :
         n \in 0..MaxBatch}

\* the outcomes of the attempts, chunk by chunk
Plans(n) == [1..Chunks(n, batch_size) -> AttemptPlan]

InitBatch ==
  /\ script = "PesqEle"
  /\ pc = "batch"
  /\ run = 0
  /\ ss \in {WithSheet(NoSheets, AC, t) : t \in {<<AsCells(header)>>, TabPesqEle}}
  /\ ufs = <<>>
  /\ i = 1
  /\ attempted = {}
  /\ failed = {}
  /\ driver = "none"
  /\ exc = FALSE
  /\ clean = TRUE
  /\ last = NoMerge
  /\ searched = <<>>
  /\ config = "unread"
  /\ df_in \in NewRowLists
  /\ calls = <<>>
  /\ rows_in = <<>>
  /\ rows_out = <<>>
  /\ date_in = None
  /\ date_out = NoDates
  /\ Offline

\* insert_rows_batched(ws, new_rows, insert_at=INSERT_AT_ROW, batch_size)
BatchCall ==
  /\ pc = "batch"
  /\ \E plan \in Plans(Len(df_in)) :
       LET res == insert_rows_batched(ss[AC], df_in, INSERT_AT_ROW, batch_size, plan) IN
       /\ ss' = WithSheet(ss, AC, res.ws)
       /\ calls' = <<[before |-> ss[AC], after |-> res.ws, raised |-> res.raised,
                      log |-> res.log]>>
  /\ pc' = "batched"
  /\ UNCHANGED <<script, run, ufs, i, attempted, failed, driver, exc, clean, last,
                 searched, config, df_in, rows_in, rows_out, date_in, date_out,
                 site, browser, crawl>>

NextBatch == BatchCall

SpecBatch == InitBatch /\ [][NextBatch]_vars

\* ------------------------------------------------------------------------
\* Vocabulary of the properties
\* ------------------------------------------------------------------------
\* key of a stored row: its first cell, stripped
RowKey(row) == IF Len(row) >= 1 THEN strip(row[1]) ELSE EmptyStr

\* how many rows of a list of stored rows have key k
KeyCount(rows, k) == Cardinality({j \in 1..Len(rows) : RowKey(rows[j]) = k})

\* how many rows of a batch have key k
BatchCount(df, k) == Cardinality({j \in 1..Len(df) : KeyOf(df[j]) = k})

BatchKeys(df) == {KeyOf(df[j]) : j \in 1..Len(df)}

\* the key set E of a tab of scraper_pesqele.py: non-empty keys from row 4 on
KeySet(ws) == {RowKey(ws[r]) : r \in DATA_START_ROW..Len(ws)} \ {EmptyStr}

ScraperData(ws) == DataRows("scraper_pesqele", ws)

\* ------------------------------------------------------------------------
\* Properties
\* ------------------------------------------------------------------------

\* C1: after any number of complete runs of either script, every tab holds
\* each identification_number in at most one data row.
C1_KeysUniquePerTab ==
  (pc = "idle" /\ clean) =>
    \A t \in DOMAIN ss :
      LET data == DataRows(script, ss[t]) IN
      \A a, b \in 1..Len(data) :
        (a < b /\ RowKey(data[a]) # EmptyStr) => RowKey(data[a]) # RowKey(data[b])

\* both calls of insert_new_rows_top on df_in have returned normally
TwoCallsReturned ==
  /\ Len(calls) >= 2
  /\ ~calls[1].raised
  /\ ~calls[2].raised

\* the second call inserted nothing and left the tab as it was
SecondCallIdle ==
  /\ calls[2].ret = 0
  /\ calls[2].after = calls[2].before

\* the first call inserted every batch row whose key the tab did not hold
FirstCallInserted ==
  /\ calls[1].ret = Len(SelectSeq(df_in, LAMBDA r : KeyOf(r) \notin KeySet(calls[1].before)))
  /\ Len(ScraperData(calls[1].after)) = Len(ScraperData(calls[1].before)) + calls[1].ret

\* C2 as stated: for every batch and every tab, the second of two calls of
\* insert_new_rows_top with the same batch inserts zero rows and leaves the
\* tab unchanged.
C2_IdempotentAnyBatch ==
  TwoCallsReturned => FirstCallInserted /\ SecondCallIdle

\* C2 amended: the same, for every batch whose records all have a non-empty
\* identification_number.
C2_IdempotentNonEmptyKeys ==
  (TwoCallsReturned /\ EmptyStr \notin BatchKeys(df_in))
    => FirstCallInserted /\ SecondCallIdle

C2_Witness ==
  /\ TwoCallsReturned
  /\ EmptyStr \notin BatchKeys(df_in)
  /\ calls[1].ret >= 2
  /\ calls[2].ret = 0

\* the first call of insert_new_rows_top on df_in has returned normally
FirstCallReturned == Len(calls) >= 1 /\ ~calls[1].raised

\* C3 as stated: each key of the batch that the tab does not hold is inserted
\* as exactly one row, also when the batch holds the key more than once, and
\* no key the tab holds is inserted.
C3_OneRowPerNewKey ==
  FirstCallReturned =>
    \A k \in BatchKeys(df_in) :
      LET had == KeyCount(ScraperData(calls[1].before), k)
          has == KeyCount(ScraperData(calls[1].after), k)
      IN IF k \in KeySet(calls[1].before) THEN has = had ELSE has = 1

\* C3 amended: every batch row whose key the tab does not hold is inserted, a
\* key that occurs n times in the batch n times, and no key the tab holds is
\* inserted; a batch that dedup_by_numero has produced therefore gets each
\* new key inserted as exactly one row.
C3_OneRowPerNewBatchRow ==
  FirstCallReturned =>
    \A k \in BatchKeys(df_in) :
      LET had == KeyCount(ScraperData(calls[1].before), k)
          has == KeyCount(ScraperData(calls[1].after), k)
      IN /\ IF k \in KeySet(calls[1].before) THEN has = had
            ELSE has = had + BatchCount(df_in, k)
         /\ (df_in = dedup_by_numero(df_in) /\ k \notin KeySet(calls[1].before)) => has = 1

C3_Witness ==
  /\ FirstCallReturned
  /\ KeySet(calls[1].before) = {K100, K200}
  /\ BatchCount(df_in, K100) = 1
  /\ BatchCount(df_in, K300) = 2
  /\ KeyCount(ScraperData(calls[1].after), K300) = 2
  /\ KeyCount(ScraperData(calls[1].after), K100) = 1

\* top n data rows of a tab, and the rows below them
TopRows(scr, ws, n) == SubSeq(DataRows(scr, ws), 1, n)
BelowTop(scr, ws, n) == SubSeq(DataRows(scr, ws), n + 1, Len(DataRows(scr, ws)))

\* capture time a row written in the current run carries
StampOfRun(scr, r) ==
  IF scr = "PesqEle" THEN now_str(r) ELSE parse_br_datetime_to_iso(now_str(r))

RowStamp(scr, row) ==
  LET c == IF scr = "PesqEle" THEN Len(header) ELSE Len(COLS_BASE) IN
  IF Len(row) >= c THEN row[c] ELSE EmptyStr

\* one step keeps tab t: its old data rows are the bottom block of its data
\* rows, the rows above them start at the anchor and are rows of this run,
\* and the rows above the header are as before
KeepsTab(t) ==
  LET old == DataRows(script, ss[t])
      n == Len(DataRows(script, ss'[t])) - Len(old)
      top == Anchor(script) - 1
  IN /\ t \in DOMAIN ss'
     /\ n >= 0
     /\ BelowTop(script, ss'[t], n) = old
     /\ \A j \in 1..n : RowStamp(script, TopRows(script, ss'[t], n)[j]) = StampOfRun(script, run)
     /\ \A r \in 1..(top - 1) : r <= Len(ss[t]) => ss'[t][r] = ss[t][r]

\* C4: every merge leaves the existing data rows unchanged in content and
\* order, as one block directly below the rows it inserts at the anchor row
\* (row 4 in scraper_pesqele.py, row 2 in PesqEle.py).
C4_ExistingRowsKept == [][\A t \in DOMAIN ss : KeepsTab(t)]_vars

C4_Witness ==
  /\ pc \in {"loop", "list"}
  /\ last.n >= 2
  /\ ~last.raised
  /\ last.title \in DOMAIN ss
  /\ LET data == DataRows(script, ss[last.title]) IN
     /\ Len(data) > last.n
     /\ RowStamp(script, data[1]) = StampOfRun(script, run)
     /\ RowStamp(script, data[Len(data)]) = StampOfRun(script, 0)

\* C5: an exception while one scope is processed does not keep any later
\* scope of the enumeration from being processed, in both scripts and also
\* for the BRASIL scope.
C5_LaterScopesProcessed ==
  (pc = "idle" /\ run > 0) =>
    LET scopes == Enumeration(script) IN
    \A a, b \in 1..Len(scopes) :
      (a < b /\ scopes[a] \in failed) => scopes[b] \in attempted

\* C6: whenever insert_new_rows_top inserts data rows, the header row is the
\* fixed eight-column list exactly, whatever it held before the call.
C6_HeaderExactAtInsert ==
  \A c \in 1..Len(calls) :
    calls[c].ret > 0 => row_values(calls[c].after, HEADER_ROW) = AsCells(COLS_BASE)

\* disclosure date and key of a stored row of scraper_pesqele.py
RowDate(row) == row[6]
ValidDate(row) == MatchesIsoDate(RowDate(row))

\* row a may stand above row b in one inserted block
OrderedPair(a, b) ==
  /\ ValidDate(b) => ValidDate(a)
  /\ ~StrLess(RowDate(a), RowDate(b))
  /\ RowDate(a) = RowDate(b) => ~StrLess(a[1], b[1])

\* C7: the rows one call inserts stand from the anchor row down by disclosure
\* date descending, ties by identification_number descending, rows without a
\* valid disclosure date after all rows with one.
C7_InsertedRowsSorted ==
  \A c \in 1..Len(calls) :
    LET block == TopRows("scraper_pesqele", calls[c].after, calls[c].ret) IN
    \A a, b \in 1..Len(block) : a < b => OrderedPair(block[a], block[b])

C7_Witness ==
  /\ Len(calls) >= 1
  /\ calls[1].ret = 3
  /\ LET block == TopRows("scraper_pesqele", calls[1].after, 3) IN
     /\ ValidDate(block[1]) /\ ValidDate(block[2]) /\ ~ValidDate(block[3])
     /\ RowDate(block[1]) = RowDate(block[2])
     /\ block[1][1] # block[2][1]

RECURSIVE IsSubsequence(_, _)
IsSubsequence(a, b) ==
  IF a = <<>> THEN TRUE
  ELSE IF b = <<>> THEN FALSE
  ELSE IF Head(a) = Head(b) THEN IsSubsequence(Tail(a), Tail(b))
  ELSE IsSubsequence(a, Tail(b))

\* the first record of rows_in with the identification_number x
FirstWith(x) ==
  rows_in[CHOOSE j \in 1..Len(rows_in) :
            /\ rows_in[j].numero_identificacao = x
            /\ \A q \in 1..(j - 1) : rows_in[q].numero_identificacao # x]

\* C8: dedup_by_numero returns a subsequence of its input with at most one
\* record per identification_number; each kept record is the first
\* occurrence of its key in the input, and the kept records keep their order.
C8_DedupKeepsFirst ==
  pc = "deduped" =>
    /\ IsSubsequence(rows_out, rows_in)
    /\ \A a, b \in 1..Len(rows_out) :
         a # b => /\ rows_out[a].numero_identificacao # rows_out[b].numero_identificacao
                  /\ KeyOf(rows_out[a]) # KeyOf(rows_out[b])
    /\ \A a \in 1..Len(rows_out) :
         rows_out[a] = FirstWith(rows_out[a].numero_identificacao)

C8_Witness ==
  /\ pc = "deduped"
  /\ Len(rows_in) = 3
  /\ rows_in[1] = TableRecord(K100, "F1")
  /\ rows_in[3] = TableRecord(K100, "F2")
  /\ rows_out = <<TableRecord(K100, "F1"), TableRecord(K200, "F1")>>

\* C9: once a run has referenced a region's tab, the tab's header row holds
\* the fixed column list, also when the search gave no record.
C9_HeaderAfterReference ==
  (last.title # EmptyStr /\ last.title \in DOMAIN ss)
    => HeaderOf(script, ss[last.title]) = FixedHeader(script)

\* C10: an insert call that fails with a write-API error is attempted exactly
\* once more, in the reconciliation of each script; there is no third attempt.
C10_RetriedExactlyOnce ==
  \A c \in 1..Len(last.log) :
    LET attempts == last.log[c] IN
    /\ Len(attempts) <= 2
    /\ attempts[1] # "ok" => Len(attempts) = 2

\* skip-list each script is configured with: SKIP_SHEETS in
\* scraper_pesqele.py, none in PesqEle.py
SkipList(scr) == IF scr = "PesqEle" THEN {} ELSE SKIP_SHEETS

\* how many of the scopes searched so far are the aggregate scope
BrasilSearches == Cardinality({j \in 1..Len(searched) : upper(searched[j]) = BRASIL})

\* C11: in one run the aggregate BRASIL scope, when the script processes it,
\* is processed before any other region and never a second time in the
\* per-region loop; the placeholder option is never processed; no region of
\* the script's skip-list is searched or has its tab created or written.
C11_EnumerationOrder ==
  /\ script = "scraper_pesqele" /\ searched # <<>> => searched[1] = BRASIL
  /\ BrasilSearches <= (IF script = "PesqEle" THEN 0 ELSE 1)
  /\ \A j \in 1..Len(searched) :
       /\ lower(searched[j]) # lower(SELECIONE)
       /\ searched[j] \notin SkipList(script)
  /\ \A t \in SkipList(script) : t \notin DOMAIN ss

C11_Witness ==
  /\ script = "scraper_pesqele"
  /\ pc = "idle"
  /\ ~exc
  /\ searched = <<BRASIL, AC, SP>>
  /\ \E j \in 1..Len(ufs) : ufs[j] \in SKIP_SHEETS
  /\ \E j \in 1..Len(UFMenu) : j > 1 /\ upper(UFMenu[j]) = BRASIL
  /\ {sheet_safe(BRASIL), sheet_safe(AC), sheet_safe(SP)} \subseteq DOMAIN ss

\* C12: a run whose configuration is missing (no destination identifier, no
\* credentials) ends before make_driver: it has no browser session and has
\* left the driver function.
C12_NoDriverAfterConfigFailure ==
  config \in {"no_id", "no_credentials"} => (driver = "none" /\ pc = "idle" /\ exc)

C12_Witness ==
  /\ run = 2
  /\ config = "no_credentials"
  /\ driver = "none"
  /\ pc = "idle"
  /\ DOMAIN ss # {}

\* C13: when the driver function has returned or raised, a browser session
\* the run created has been quit: on normal completion, after an exception
\* out of the crawl, and when quit itself raises.
C13_SessionQuitOnExit ==
  pc = "idle" => driver # "open"

C13_Witness ==
  /\ pc = "idle"
  /\ exc
  /\ failed # {}
  /\ driver = "quit"

\* s is DD/MM/YYYY and nothing else
IsBrDate(s) ==
  /\ s # None
  /\ Len(s) = 10
  /\ \A p \in {1, 2, 4, 5, 7, 8, 9, 10} : s[p] \in Digit
  /\ s[3] = "/" /\ s[6] = "/"

\* s is HH:MM:SS and nothing else
IsClock(s) ==
  /\ Len(s) = 8
  /\ \A p \in {1, 2, 4, 5, 7, 8} : s[p] \in Digit
  /\ s[3] = ":" /\ s[6] = ":"

\* the digits of DD/MM/YYYY as YYYY-MM-DD
Rearranged(s) == <<s[7], s[8], s[9], s[10], "-", s[4], s[5], "-", s[1], s[2]>>

\* s is DD/MM/YYYY, g whitespace characters, HH:MM:SS
IsBrDatetime(s, g) ==
  /\ s # None
  /\ Len(s) = 18 + g
  /\ IsBrDate(SubSeq(s, 1, 10))
  /\ SubSeq(s, 11, 10 + g) = Blanks(g)
  /\ IsClock(SubSeq(s, 11 + g, 18 + g))

\* what the two parsers owe for a text s that counts as the input
DatesOf(s) ==
  [date |-> IF IsBrDate(s) THEN Rearranged(s) ELSE EmptyStr,
   datetime |-> IF \E g \in 1..(MaxPad + 1) : IsBrDatetime(s, g)
                THEN Rearranged(s) \o <<" ">> \o SubSeq(s, Len(s) - 7, Len(s))
                ELSE EmptyStr]

\* C14 as stated: parse_br_date_to_iso maps exactly the strings DD/MM/YYYY
\* to YYYY-MM-DD with the same digits and every other input to the empty
\* string; parse_br_datetime_to_iso does the same for DD/MM/YYYY HH:MM:SS.
C14_ExactPatternOnly ==
  pc = "parsed" =>
    /\ date_out.date = DatesOf(date_in).date
    /\ date_out.datetime =
         (IF IsBrDatetime(date_in, 1) THEN DatesOf(date_in).datetime ELSE EmptyStr)

\* C14 amended: the same for the input with the whitespace around it taken
\* off, an absent value counting as the empty string, and with one or more
\* whitespace characters between date and time.
C14_PatternAfterStrip ==
  pc = "parsed" =>
    date_out = DatesOf(strip(IF date_in = None THEN EmptyStr ELSE date_in))

C14_Witness ==
  /\ pc = "parsed"
  /\ date_in = <<" ">> \o D0503
  /\ date_out.date = <<"2", "0", "2", "6", "-", "0", "3", "-", "0", "5">>
  /\ date_out.datetime = EmptyStr

\* keys of the rows a result table shows on any of its pages, as the
\* extractor reads them
ShownKeys(st) ==
  UNION { {strip(st.pages[q][n].cols[1]) :
             n \in {m \in 1..Len(st.pages[q]) : Len(st.pages[q][m].cols) >= 5}} :
          q \in 1..Len(st.pages) }
  \ {EmptyStr}

\* C15: for a result of N pages scrape_all_pages_current_query visits the
\* pages 1..N in ascending order and returns a record for every distinct
\* identification_number shown on any page, also when N is larger than the
\* number of page links the pager shows at one time.
C15_AllPagesVisited ==
  (crawl.pc = "returned" /\ site.pager) =>
    /\ crawl.visited = [q \in 1..Len(site.pages) |-> q]
    /\ ShownKeys(site) \subseteq {KeyOf(crawl.result[j]) : j \in 1..Len(crawl.result)}

\* the next row of the page is about to be read, with the list shown
NextRowDue ==
  /\ crawl.pc = "row"
  /\ crawl.r <= Len(crawl.iter)
  /\ crawl.opened + crawl.failures > 0

\* rows of at least 5 cells among the rows the for loop walks
WideRows == SelectSeq(crawl.iter, LAMBDA row : Len(row.cols) >= 5)

\* C16: after the return from a row's detail view
\* parse_current_table_with_details reads every later row of the page
\* through a handle fetched after that navigation; when every excursion
\* came back to the list, all rows of at least 5 cells give a record, also
\* when each navigation makes the earlier handles stale.
C16_RowsReadThroughFreshHandles ==
  /\ (NextRowDue /\ browser.view = "list") => crawl.iter_dom = browser.dom
  /\ (crawl.pc \in {"returned", "raised"} /\ crawl.failures = 0) =>
       (crawl.pc = "returned" /\ Len(crawl.result) = Len(WideRows))

\* C17: after the detail excursion of a row has ended, however it ended, the
\* browser shows the list view with the page number that was active before
\* the excursion, before the next row is read.
C17_BackOnSamePage ==
  NextRowDue => (browser.view = "list" /\ browser.active = crawl.current_page)

\* C18: a failure at any step of one row's detail excursion gives that row
\* a record with an absent disclosure date, and
\* parse_current_table_with_details still returns a record for every row of
\* the page instead of raising.
C18_FailedDetailKeepsRows ==
  /\ \A j \in crawl.failed_rows :
       j <= Len(crawl.out) => crawl.out[j].data_divulgacao = None
  /\ (crawl.pc \in {"returned", "raised"} /\ crawl.opened = 0 /\ crawl.failures > 0) =>
       (crawl.pc = "returned" /\ Len(crawl.result) = Len(WideRows))

\* C19: without a pager element scrape_all_pages_current_query returns the
\* deduplicated records of the page shown, does not raise and does not call
\* go_to_page.
C19_NoPagerSinglePage ==
  (crawl.pc \in {"returned", "raised"} /\ ~site.pager) =>
    /\ crawl.pc = "returned"
    /\ crawl.result = dedup_by_numero(ParseShown(script, site, browser))
    /\ crawl.goto_calls = 0

\* C20: go_to_page makes at most max_tries passes (6 in PesqEle.py, 8 in
\* scraper_pesqele.py), returns at the first pass that completes, makes
\* another pass after every transient failure (stale reference, intercepted
\* click, timeout, no pager link for the page), and raises the error of the
\* last pass only after max_tries failed passes.
C20_GoToPageRetries ==
  /\ crawl.tries <= max_tries(script)
  /\ crawl.pc = "returned" => crawl.outcome = "ok"
  /\ crawl.pc = "raised" =>
       /\ crawl.tries = max_tries(script)
       /\ crawl.outcome \in Transient
       /\ crawl.error = crawl.outcome

\* C21: open_menu returns only with the dropdown panel visible, makes at most
\* 8 passes, and raises only TimeoutException and only after 8 passes, each
\* of which either raised or left the panel present but not visible.
C21_OpenMenuRetries ==
  /\ crawl.tries <= 8
  /\ crawl.pc = "find" => browser.panel = "visible"
  /\ (crawl.pc = "raised" /\ crawl.raised_in = "open_menu")
       => (crawl.error = "timeout" /\ crawl.tries = 8)

\* C22: select_one_menu_by_text clicks the first option whose normalized text
\* equals the text when there is one, otherwise the first option containing
\* the text, otherwise nothing and raises NoSuchElementException; on each of
\* these exits the panel is closed.
C22_SelectExactThenSubstring ==
  (crawl.pc \in {"returned", "raised"} /\ crawl.raised_in # "open_menu") =>
    LET exact == ExactMatch(site.options, crawl.text)
        sub   == SubstringMatch(site.options, crawl.text)
    IN  /\ exact # 0 => (crawl.pc = "returned" /\ crawl.clicked = exact)
        /\ (exact = 0 /\ sub # 0) => (crawl.pc = "returned" /\ crawl.clicked = sub)
        /\ (exact = 0 /\ sub = 0) =>
             (crawl.pc = "raised" /\ crawl.error = "not_found" /\ crawl.clicked = 0)
        /\ browser.panel = "closed"

\* C23: no step of either script adds a data row with an empty (or
\* whitespace-only) numero_identificacao to a tab: the rows a step puts at
\* the anchor row all carry a key.
C23_NoEmptyKeyInserted ==
  [][\A t \in DOMAIN ss' :
       LET old == IF t \in DOMAIN ss THEN DataRows(script, ss[t]) ELSE <<>>
           new == DataRows(script, ss'[t])
       IN  \A j \in 1..(Len(new) - Len(old)) : RowKey(new[j]) # EmptyStr]_vars

\* the search for AC showed the table with a row without a key, and the one
\* row of that table that has a key was inserted
C23_Witness ==
  /\ pc \in {"loop", "list"}
  /\ run = 1
  /\ last.title = AC
  /\ last.n = 1
  /\ ~last.raised
  /\ AC \in DOMAIN ss
  /\ Len(DataRows(script, ss[AC])) >= 1
  /\ RowKey(DataRows(script, ss[AC])[1]) = K200

\* C24: every record that carries region R as its uf_filtro was read from a
\* table rendered by the search of region R, also when the wait for the old
\* table to go stale timed out after the click.
C24_RecordsFromOwnSearch ==
  \A rec \in crawl.records : rec.origin = rec.uf_filtro

\* occurrences of a row in a worksheet
RowCount(ws, row) == Cardinality({r \in 1..Len(ws) : ws[r] = row})

\* every insert call of the run was answered without an error
AllInsertsOk(log) == \A c \in 1..Len(log) : log[c] = <<"ok">>

\* C25: insert_rows_batched makes one insert call per chunk of at most
\* batch_size rows and, when every call succeeds, leaves the input rows in the
\* order of the input list from the anchor row down, above the rows the tab
\* had, also for lists longer than batch_size.
C25_BatchesKeepInputOrder ==
  (pc = "batched" /\ ~calls[1].raised /\ AllInsertsOk(calls[1].log)) =>
    /\ Len(calls[1].log) = Chunks(Len(df_in), batch_size)
    /\ TopRows("PesqEle", calls[1].after, Len(df_in)) = df_in
    /\ BelowTop("PesqEle", calls[1].after, Len(df_in)) = DataRows("PesqEle", calls[1].before)

\* C26: when insert_rows_batched returns normally, every input row is in the
\* tab exactly once more than before, also when a first attempt raised
\* APIError after the store had applied it and the chunk was retried.
C26_EachRowInsertedOnce ==
  (pc = "batched" /\ ~calls[1].raised) =>
    \A j \in 1..Len(df_in) :
      RowCount(calls[1].after, df_in[j]) = RowCount(calls[1].before, df_in[j]) + 1

====
